---- MODULE Spec2Model ----
(***************************************************************************)
(* State-machine model of app.py (tistory-downloader): the RSS feed        *)
(* reader, the flat-file download cache, the image downloader and the main *)
(* loop, plus the URL normaliser complete_rss_url as an operator on        *)
(* character sequences.                                                    *)
(*                                                                         *)
(* Time is counted in ticks; a calendar day has TicksPerDay ticks.  An     *)
(* aware datetime is a record [clock, offset]: the wall-clock reading and  *)
(* the UTC offset it is labelled with; the instant it denotes is           *)
(* clock - offset.                                                         *)
(*                                                                         *)
(* Spec is the program run after run on one feed; its feeds carry offset 0 *)
(* only, because line 34 drops the offset before anything else reads it.   *)
(* SpecFeed is the feed reader alone, on feeds with every offset.  SpecUrl *)
(* is complete_rss_url alone.                                              *)
(***************************************************************************)
EXTENDS Integers, Sequences, FiniteSets, TLC

\* ---------------------------------------------------------------- bounds
MaxFeed     == 2   \* entries in a feed
MaxClock    == 1   \* wall-clock readings 0..MaxClock
TicksPerDay == 2   \* wall-clock readings per day
MaxImages   == 2   \* figure tags in a post page
MaxRuns     == 2   \* runs of main
MaxLen      == 5   \* characters in a URL handed to complete_rss_url

\* Post URLs, as the list path.split('/') yields: "/1" and "/2/".
URLS == { <<"", "1">>, <<"", "2", "">> }

Clocks  == 0 .. MaxClock
Offsets == {0, 1}
Days    == {0, 1}

\* A feed entry: entry.link and entry.published ("... %H:%M:%S %z").
Entry == [link : URLS, clock : Clocks, offset : Offsets]
Feeds == UNION { [1..n -> Entry] : n \in 0..MaxFeed }

\* the feeds whose timestamps are all given in UTC
UtcFeeds == { f \in Feeds : \A i \in 1..Len(f) : f[i].offset = 0 }

\* args.filter: <<>> when the flag is absent, <<d>> for the day d.
Cutoffs == { <<>> } \cup { <<d>> : d \in Days }

Chars == { "a", "/", "r", "s", "\n" }
Strings == UNION { [1..n -> Chars] : n \in 0..MaxLen }

VARIABLES
  feed,       \* the entries of the blog's feed, as feedparser yields them
  cutoff,     \* args.filter of the current run
  items,      \* items_info of the current run
  pos,        \* 1-based position of main's for loop in items
  pc,         \* "idle" | "loop" | "images" | "done" | "crashed" | "feed_error"
  cache,      \* the cache file: [exists, posts]
  files,      \* image files in the output folder
  figures,    \* number of figure tags of the page being downloaded
  idx,        \* enumerate counter i of the image loop
  post_date,  \* post_date of the call in progress
  fetches,    \* history: page fetches attempted per post URL, over all runs
  calls,      \* history: download_images calls finished in this run
  runs,       \* history: runs of main started
  url,        \* argument of complete_rss_url
  rss_url,    \* complete_rss_url(url)
  rss_url2,   \* complete_rss_url(rss_url)
  upc         \* "arg" | "once" | "twice"

vars == << feed, cutoff, items, pos, pc, cache, files, figures, idx,
           post_date, fetches, calls, runs, url, rss_url, rss_url2, upc >>

runVars == << feed, cutoff, items, pos, pc, cache, files, figures, idx,
              post_date, fetches, calls, runs >>
urlVars == << url, rss_url, rss_url2, upc >>

Range(s) == { s[i] : i \in 1..Len(s) }

\* ------------------------------------------------------------ datetimes
\* The instant an aware datetime denotes; Python compares aware datetimes
\* by instant.
Instant(dt) == dt.clock - dt.offset

\* datetime.replace(tzinfo=pytz.UTC): keeps the wall-clock fields and
\* relabels them as UTC; no conversion takes place.
replace_tzinfo_UTC(dt) == [clock |-> dt.clock, offset |-> 0]

\* datetime.strptime(entry.published, "%a, %d %b %Y %H:%M:%S %z")
strptime_published(entry) == [clock |-> entry.clock, offset |-> entry.offset]

\* datetime.strptime(filter_date, "%Y/%m/%d"): midnight of the day, then
\* .replace(tzinfo=pytz.UTC).
filter_datetime(filter_date) ==
  [clock |-> filter_date[1] * TicksPerDay, offset |-> 0]

\* post_date.strftime("%Y-%m-%d")
date_str(dt) == dt.clock \div TicksPerDay

\* ---------------------------------------------------------- feed reader
entry_date(entry) == replace_tzinfo_UTC(strptime_published(entry))

\* the condition of the list comprehension
retained(entry, filter_date) ==
  \/ filter_date = <<>>
  \/ Instant(entry_date(entry)) > Instant(filter_datetime(filter_date))

RECURSIVE comprehension(_, _)
comprehension(entries, filter_date) ==
  IF entries = <<>> THEN <<>>
  ELSE LET e == Head(entries)
           rest == comprehension(Tail(entries), filter_date)
       IN IF retained(e, filter_date)
          THEN << [url |-> e.link, date |-> entry_date(e)] >> \o rest
          ELSE rest

\* insert x behind every element whose date is >= its own
RECURSIVE InsertDesc(_, _)
InsertDesc(s, x) ==
  IF s = <<>> THEN << x >>
  ELSE IF Instant(Head(s).date) >= Instant(x.date)
       THEN << Head(s) >> \o InsertDesc(Tail(s), x)
       ELSE << x >> \o s

RECURSIVE InsertAsc(_, _)
InsertAsc(s, x) ==
  IF s = <<>> THEN << x >>
  ELSE IF Instant(Head(s).date) <= Instant(x.date)
       THEN << Head(s) >> \o InsertAsc(Tail(s), x)
       ELSE << x >> \o s

RECURSIVE SortAsc(_)
SortAsc(s) ==
  IF s = <<>> THEN <<>>
  ELSE InsertAsc(SortAsc(SubSeq(s, 1, Len(s) - 1)), s[Len(s)])

RECURSIVE SortDesc(_)
SortDesc(s) ==
  IF s = <<>> THEN <<>>
  ELSE InsertDesc(SortDesc(SubSeq(s, 1, Len(s) - 1)), s[Len(s)])

\* sorted without reverse=True
sorted_by_date_ascending(s) == SortAsc(s)

\* sorted(items_info, key=lambda x: x['date'], reverse=True): stable
sorted_by_date_reverse(s) == SortDesc(s)

extract_info_from_rss(entries, filter_date) ==
  sorted_by_date_reverse(comprehension(entries, filter_date))

\* --------------------------------------------------------------- cache
NoCache == [exists |-> FALSE, posts |-> <<>>]

\* a missing file counts as "already downloaded"
is_post_downloaded_missing_true(c, u) ==
  \/ ~c.exists
  \/ \E i \in 1..Len(c.posts) : c.posts[i] = u

\* only the first cached URL is looked at
is_post_downloaded_first_only(c, u) ==
  c.exists /\ Len(c.posts) > 0 /\ c.posts[1] = u

is_post_downloaded(c, u) ==
  c.exists /\ \E i \in 1..Len(c.posts) : c.posts[i] = u

\* the list is not loaded before the write
update_cache_overwrite(c, u) ==
  [exists |-> TRUE, posts |-> << u >>]

update_cache(c, u) ==
  [exists |-> TRUE,
   posts  |-> Append(IF c.exists THEN c.posts ELSE <<>>, u)]

\* ------------------------------------------------------- URL normaliser
RssSuffix == << "/", "r", "s", "s" >>

EndsWith(s, suffix) ==
  /\ Len(s) >= Len(suffix)
  /\ SubSeq(s, Len(s) - Len(suffix) + 1, Len(s)) = suffix

\* re.search(r'/rss$', url): without re.MULTILINE, '$' matches at the end
\* of the string and also just before a newline that ends the string
search_rss_dollar(u) ==
  \/ EndsWith(u, RssSuffix)
  \/ EndsWith(u, RssSuffix \o << "\n" >>)

\* url.rstrip('/')
RECURSIVE rstrip_slash(_)
rstrip_slash(u) ==
  IF Len(u) > 0 /\ u[Len(u)] = "/"
  THEN rstrip_slash(SubSeq(u, 1, Len(u) - 1))
  ELSE u

complete_rss_url(u) ==
  IF ~ search_rss_dollar(u) THEN rstrip_slash(u) \o RssSuffix ELSE u

\* ----------------------------------------------------------- downloader
\* path_segments[-1] if path_segments[-1] else path_segments[-2]
extract_index_from_url(u) ==
  IF u[Len(u)] # "" THEN u[Len(u)] ELSE u[Len(u) - 1]

\* f"{date_str}-{index}-{count}-{decoded_filename}"; the image's own name
\* comes from the page and is left out.
generate_filename(date, index, count) ==
  [date |-> date_str(date), index |-> index, count |-> count]

\* the date of the first item whose url matches, else datetime.now
find_post_date(items_info, u, now) ==
  IF \E k \in 1..Len(items_info) : items_info[k].url = u
  THEN LET k == CHOOSE j \in 1..Len(items_info) :
                  /\ items_info[j].url = u
                  /\ \A m \in 1..(j - 1) : items_info[m].url # u
       IN items_info[k].date
  ELSE [clock |-> now, offset |-> 0]

Init ==
  /\ feed \in UtcFeeds
  /\ cutoff = <<>>
  /\ items = <<>>
  /\ pos = 1
  /\ pc = "idle"
  /\ cache = NoCache
  /\ files = {}
  /\ figures = 0
  /\ idx = 1
  /\ post_date = [clock |-> 0, offset |-> 0]
  /\ fetches = [u \in URLS |-> 0]
  /\ calls = <<>>
  /\ runs = 0
  /\ url = <<>>
  /\ rss_url = <<>>
  /\ rss_url2 = <<>>
  /\ upc = "arg"

Stopped == pc \in {"idle", "done", "crashed", "feed_error"}

\* main up to the for loop: the feed is fetched, parsed, filtered, sorted
StartRun ==
  /\ Stopped
  /\ runs < MaxRuns
  /\ \E c \in Cutoffs :
       /\ cutoff' = c
       /\ items' = extract_info_from_rss(feed, c)
  /\ pos' = 1
  /\ pc' = "loop"
  /\ calls' = <<>>
  /\ runs' = runs + 1
  /\ UNCHANGED << feed, cache, files, figures, idx, post_date, fetches >>
  /\ UNCHANGED urlVars

\* feedparser or strptime raises: nothing catches it, the process ends
FeedError ==
  /\ Stopped
  /\ runs < MaxRuns
  /\ \E c \in Cutoffs : cutoff' = c
  /\ items' = <<>>
  /\ pos' = 1
  /\ pc' = "feed_error"
  /\ calls' = <<>>
  /\ runs' = runs + 1
  /\ UNCHANGED << feed, cache, files, figures, idx, post_date, fetches >>
  /\ UNCHANGED urlVars

\* download_images: is_post_downloaded(url) holds, return
Skip ==
  /\ pc = "loop"
  /\ pos <= Len(items)
  /\ is_post_downloaded(cache, items[pos].url)
  /\ calls' = Append(calls, [url |-> items[pos].url, outcome |-> "skipped"])
  /\ pos' = pos + 1
  /\ UNCHANGED << feed, cutoff, items, pc, cache, files, figures, idx,
                  post_date, fetches, runs >>
  /\ UNCHANGED urlVars

\* the except clause also records the post
FetchFailRecords ==
  /\ pc = "loop"
  /\ pos <= Len(items)
  /\ ~ is_post_downloaded(cache, items[pos].url)
  /\ fetches' = [fetches EXCEPT ![items[pos].url] = @ + 1]
  /\ cache' = update_cache(cache, items[pos].url)
  /\ calls' = Append(calls,
                [url |-> items[pos].url, outcome |-> "fetch_failed"])
  /\ pos' = pos + 1
  /\ UNCHANGED << feed, cutoff, items, pc, files, figures, idx,
                  post_date, runs >>
  /\ UNCHANGED urlVars

\* download_images: requests.get or raise_for_status raises a
\* RequestException; it is caught, printed, and the call returns
FetchFail ==
  /\ pc = "loop"
  /\ pos <= Len(items)
  /\ ~ is_post_downloaded(cache, items[pos].url)
  /\ fetches' = [fetches EXCEPT ![items[pos].url] = @ + 1]
  /\ calls' = Append(calls,
                [url |-> items[pos].url, outcome |-> "fetch_failed"])
  /\ pos' = pos + 1
  /\ UNCHANGED << feed, cutoff, items, pc, cache, files, figures, idx,
                  post_date, runs >>
  /\ UNCHANGED urlVars

\* download_images: the page is fetched and parsed, the figure tags are
\* found, post_date is looked up; the image loop is entered
FetchOk ==
  /\ pc = "loop"
  /\ pos <= Len(items)
  /\ ~ is_post_downloaded(cache, items[pos].url)
  /\ fetches' = [fetches EXCEPT ![items[pos].url] = @ + 1]
  /\ \E n \in 0..MaxImages : figures' = n
  /\ \E now \in Clocks :
       post_date' = find_post_date(items, items[pos].url, now)
  /\ idx' = 1
  /\ pc' = "images"
  /\ UNCHANGED << feed, cutoff, items, pos, cache, files, calls, runs >>
  /\ UNCHANGED urlVars

\* one pass of the image loop: urlretrieve writes the file
SaveImage ==
  /\ pc = "images"
  /\ idx <= figures
  /\ files' = files \cup
       { generate_filename(post_date,
                           extract_index_from_url(items[pos].url), idx) }
  /\ idx' = idx + 1
  /\ UNCHANGED << feed, cutoff, items, pos, pc, cache, figures, post_date,
                  fetches, calls, runs >>
  /\ UNCHANGED urlVars

\* the failure is swallowed and the post is recorded all the same
SaveImageFailSwallowed ==
  /\ pc = "images"
  /\ idx <= figures
  /\ cache' = update_cache(cache, items[pos].url)
  /\ calls' = Append(calls,
                [url |-> items[pos].url, outcome |-> "save_failed"])
  /\ pos' = pos + 1
  /\ pc' = "loop"
  /\ figures' = 0
  /\ idx' = 1
  /\ post_date' = [clock |-> 0, offset |-> 0]
  /\ UNCHANGED << feed, cutoff, items, files, fetches, runs >>
  /\ UNCHANGED urlVars

\* one pass of the image loop raises (urlretrieve fails, or the tag has no
\* span with data-url): not a RequestException, so the run ends
SaveImageFail ==
  /\ pc = "images"
  /\ idx <= figures
  /\ calls' = Append(calls,
                [url |-> items[pos].url, outcome |-> "save_failed"])
  /\ pc' = "crashed"
  /\ figures' = 0
  /\ idx' = 1
  /\ post_date' = [clock |-> 0, offset |-> 0]
  /\ UNCHANGED << feed, cutoff, items, pos, cache, files, fetches, runs >>
  /\ UNCHANGED urlVars

\* the image loop is over: update_cache(url), return to main's loop; the
\* locals of the call are gone
FinishPost ==
  /\ pc = "images"
  /\ idx > figures
  /\ cache' = update_cache(cache, items[pos].url)
  /\ calls' = Append(calls,
                [url |-> items[pos].url, outcome |-> "downloaded"])
  /\ pos' = pos + 1
  /\ pc' = "loop"
  /\ figures' = 0
  /\ idx' = 1
  /\ post_date' = [clock |-> 0, offset |-> 0]
  /\ UNCHANGED << feed, cutoff, items, files, fetches, runs >>
  /\ UNCHANGED urlVars

\* main's for loop is exhausted
EndRun ==
  /\ pc = "loop"
  /\ pos > Len(items)
  /\ pc' = "done"
  /\ UNCHANGED << feed, cutoff, items, pos, cache, files, figures, idx,
                  post_date, fetches, calls, runs >>
  /\ UNCHANGED urlVars

Next ==
  \/ StartRun
  \/ FeedError
  \/ Skip
  \/ FetchFail
  \/ FetchOk
  \/ SaveImage
  \/ SaveImageFail
  \/ FinishPost
  \/ EndRun

Spec == Init /\ [][Next]_vars

\* ------------------------------------- extract_info_from_rss on its own
InitFeed ==
  /\ feed \in Feeds
  /\ cutoff = <<>>
  /\ items = <<>>
  /\ pos = 1
  /\ pc = "idle"
  /\ cache = NoCache
  /\ files = {}
  /\ figures = 0
  /\ idx = 1
  /\ post_date = [clock |-> 0, offset |-> 0]
  /\ fetches = [u \in URLS |-> 0]
  /\ calls = <<>>
  /\ runs = 0
  /\ url = <<>>
  /\ rss_url = <<>>
  /\ rss_url2 = <<>>
  /\ upc = "arg"

NextFeed == StartRun

SpecFeed == InitFeed /\ [][NextFeed]_vars

\* ------------------------------------------ complete_rss_url on its own
InitUrl ==
  /\ feed = <<>>
  /\ cutoff = <<>>
  /\ items = <<>>
  /\ pos = 1
  /\ pc = "idle"
  /\ cache = NoCache
  /\ files = {}
  /\ figures = 0
  /\ idx = 1
  /\ post_date = [clock |-> 0, offset |-> 0]
  /\ fetches = [u \in URLS |-> 0]
  /\ calls = <<>>
  /\ runs = 0
  /\ url \in Strings
  /\ rss_url = <<>>
  /\ rss_url2 = <<>>
  /\ upc = "arg"

\* rss_url = complete_rss_url(args.url)
Complete ==
  /\ upc = "arg"
  /\ rss_url' = complete_rss_url(url)
  /\ upc' = "once"
  /\ UNCHANGED << url, rss_url2 >>
  /\ UNCHANGED runVars

\* the result is handed to complete_rss_url once more
CompleteAgain ==
  /\ upc = "once"
  /\ rss_url2' = complete_rss_url(rss_url)
  /\ upc' = "twice"
  /\ UNCHANGED << url, rss_url >>
  /\ UNCHANGED runVars

NextUrl ==
  \/ Complete
  \/ CompleteAgain

SpecUrl == InitUrl /\ [][NextUrl]_vars

\* ============================================================== claims
InCache(u) == cache.exists /\ u \in Range(cache.posts)

\* download_images(items[pos].url) is about to be called
CallStarts == pc = "loop" /\ pos <= Len(items)

\* the step ends a download_images call with the given outcome
CallEnds(outcome) ==
  /\ Len(calls') = Len(calls) + 1
  /\ calls'[Len(calls')].outcome = outcome

LastOutcome(outcome) ==
  /\ Len(calls) > 0
  /\ calls[Len(calls)].outcome = outcome

RunStarted == pc \notin {"idle", "feed_error"}

\* the file the image loop writes for counter k of the call in progress
FileOf(k) ==
  generate_filename(post_date, extract_index_from_url(items[pos].url), k)

\* C1: a call for a URL the cache file contains fetches no page, saves no
\* image and leaves the cache as it is; a call for a URL the cache does not
\* contain (missing file included) performs a page fetch for that URL.
C1_CachedSkippedElseFetched ==
  [][ CallStarts =>
        IF InCache(items[pos].url)
        THEN /\ fetches' = fetches
             /\ files' = files
             /\ cache' = cache
        ELSE fetches'[items[pos].url] = fetches[items[pos].url] + 1 ]_vars

W_C1_SkippedCachedPost ==
  /\ LastOutcome("skipped")
  /\ InCache(calls[Len(calls)].url)
  /\ fetches[calls[Len(calls)].url] = 1
  /\ \E u \in URLS : ~ InCache(u) /\ fetches[u] >= 1

\* C2 (as stated): every post URL has a page fetch attempted at most once
\* in total over all runs, whatever the outcome of the attempt.
Orig_C2_AtMostOneFetch ==
  \A u \in URLS : fetches[u] <= 1

\* C2 (amended): a post URL is recorded in the cache at most once, a
\* recorded URL has had a page fetch, and from the moment a URL is in the
\* cache no further page fetch is attempted for it.
C2_NoFetchOnceCached ==
  /\ [] (\A i, j \in 1..Len(cache.posts) :
           cache.posts[i] = cache.posts[j] => i = j)
  /\ [] (\A u \in URLS : InCache(u) => fetches[u] >= 1)
  /\ [][ \A u \in URLS : InCache(u) => fetches'[u] = fetches[u] ]_vars

W_C2_RetriedThenCachedThenSkipped ==
  /\ LastOutcome("skipped")
  /\ fetches[calls[Len(calls)].url] >= 2
  /\ InCache(calls[Len(calls)].url)
  /\ runs = MaxRuns

\* C3: a failed page fetch makes the call return normally, with the cache
\* file exactly as before (a missing file still missing) and no image
\* file written.
C3_FetchFailureLeavesCacheAndFiles ==
  [][ CallEnds("fetch_failed") =>
        /\ cache' = cache
        /\ files' = files
        /\ pc' = "loop" ]_vars

W_C3_FetchFailedWithCache ==
  /\ LastOutcome("fetch_failed")
  /\ ~ InCache(calls[Len(calls)].url)
  /\ cache.exists
  /\ files # {}

\* C4: a failure while processing one post aborts only that post: once a
\* call of the run has failed, the calls still follow the list order and
\* the run does not stop before download_images has been called for every
\* item of the list.
Orig_C4_FailureNeverEndsRun ==
  (\E i \in 1..Len(calls) :
      calls[i].outcome \in {"fetch_failed", "save_failed"})
  => /\ \A i \in 1..Len(calls) : calls[i].url = items[i].url
     /\ Stopped => Len(calls) = Len(items)

\* the instant a feed entry's published timestamp denotes
PublishedInstant(e) == e.clock - e.offset

\* midnight UTC of the cutoff day
CutoffInstant(c) == c[1] * TicksPerDay

AfterCutoff(e, c) == c = <<>> \/ PublishedInstant(e) > CutoffInstant(c)

\* C5: extract_info_from_rss returns exactly the entries whose published
\* instant is strictly later than midnight UTC of the cutoff day (every
\* entry when there is no cutoff), and no other entry is fetched or added
\* to the cache in that run.
Orig_C5_ExactlyEntriesAfterCutoff ==
  RunStarted =>
    /\ \A u \in URLS :
         Cardinality({ i \in 1..Len(items) : items[i].url = u })
           = Cardinality({ j \in 1..Len(feed) :
                             feed[j].link = u /\ AfterCutoff(feed[j], cutoff) })
    /\ \A i \in 1..Len(calls) :
         \E j \in 1..Len(feed) :
           feed[j].link = calls[i].url /\ AfterCutoff(feed[j], cutoff)

\* C6: the date paired with a link is the entry's published instant in
\* UTC, clock time minus offset, so entries denoting one instant under
\* different offsets get equal dates.
Orig_C6_DateIsInstantInUTC ==
  RunStarted =>
    /\ \A i \in 1..Len(items) :
         \E j \in 1..Len(feed) :
           /\ feed[j].link = items[i].url
           /\ Instant(items[i].date) = PublishedInstant(feed[j])
           /\ items[i].date.offset = 0
    /\ \A j, m \in 1..Len(feed) :
         PublishedInstant(feed[j]) = PublishedInstant(feed[m])
           => entry_date(feed[j]) = entry_date(feed[m])

\* the entries the comprehension keeps, by the date the code pairs with them
KeptByCode(j) ==
  cutoff = <<>> \/ feed[j].clock > cutoff[1] * TicksPerDay

\* C7: items_info is sorted by descending date, is a permutation of the
\* retained entries, and main calls download_images for the items one at
\* a time in that order, a call being over before the next one starts.
C7_SortedDescendingProcessedInOrder ==
  RunStarted =>
    /\ \A i \in 1..(Len(items) - 1) :
         Instant(items[i].date) >= Instant(items[i + 1].date)
    /\ \A u \in URLS : \A t \in Clocks :
         Cardinality({ i \in 1..Len(items) :
                         items[i].url = u /\ items[i].date.clock = t })
           = Cardinality({ j \in 1..Len(feed) :
                             feed[j].link = u /\ feed[j].clock = t
                             /\ KeptByCode(j) })
    /\ Len(calls) <= Len(items)
    /\ \A i \in 1..Len(calls) : calls[i].url = items[i].url
    /\ pos = Len(calls) + (IF pc = "crashed" THEN 0 ELSE 1)

W_C7_TwoPostsNewestFirst ==
  /\ pc = "done"
  /\ Len(calls) = 2
  /\ Instant(items[1].date) > Instant(items[2].date)
  /\ feed[1].link = items[2].url
  /\ feed[1].clock < feed[2].clock
  /\ calls[1].url # calls[2].url

IsPrefix(s, t) ==
  Len(s) <= Len(t) /\ SubSeq(t, 1, Len(s)) = s

\* C9: a call whose page fetch and image saves all succeed leaves the
\* cache equal to the old list (empty when the file was missing) with the
\* URL appended last; every other step leaves the cache file as it was;
\* so the old contents are always a prefix of the new.
C9_CacheAppendOnly ==
  [][ /\ IF CallEnds("downloaded")
         THEN /\ cache'.exists
              /\ cache'.posts = Append(cache.posts, items[pos].url)
         ELSE cache' = cache
      /\ IsPrefix(cache.posts, cache'.posts) ]_vars

W_C9_AppendedBehindOlderEntry ==
  /\ LastOutcome("downloaded")
  /\ Len(cache.posts) = 2
  /\ cache.posts[2] = calls[Len(calls)].url
  /\ files = {}

\* C10: a URL enters the cache only in a call that has saved every matched
\* image, counters 1..n in order; when saving image k raises, the run
\* terminates, the URL is not cached and the k-1 saved images stay.
C10_CachedOnlyAfterAllImagesSaved ==
  /\ [] (pc = "images" =>
           /\ ~ InCache(items[pos].url)
           /\ idx \in 1..(figures + 1)
           /\ \A k \in 1..(idx - 1) : FileOf(k) \in files)
  /\ [][ cache' # cache =>
           /\ pc = "images"
           /\ idx = figures + 1
           /\ \A k \in 1..figures : FileOf(k) \in files
           /\ cache'.posts = Append(cache.posts, items[pos].url) ]_vars
  /\ [][ CallEnds("save_failed") =>
           /\ pc' = "crashed"
           /\ cache' = cache
           /\ files' = files
           /\ \A k \in 1..(idx - 1) : FileOf(k) \in files' ]_vars

W_C10_CachedAfterAllImages ==
  /\ runs = 1
  /\ Len(calls) = 1
  /\ LastOutcome("downloaded")
  /\ cache.posts = << calls[1].url >>
  /\ Cardinality(files) = MaxImages

\* C8: a URL that does not end with '/rss' comes back with its trailing
\* slashes stripped and '/rss' appended once; a URL that ends with '/rss'
\* comes back unchanged; so every result ends with '/rss' and a second
\* application changes nothing.
Orig_C8_CompleteRssUrl ==
  upc = "twice" =>
    /\ ~ EndsWith(url, RssSuffix) => rss_url = rstrip_slash(url) \o RssSuffix
    /\ EndsWith(url, RssSuffix) => rss_url = url
    /\ EndsWith(rss_url, RssSuffix)
    /\ rss_url2 = rss_url

====
